---- MODULE Spec2Model ----
(***************************************************************************)
(* Model of www/js/push-notifications.js: the LeqoeHuntNotifications       *)
(* object, its initialize() chain of awaited plugin calls, the four plugin *)
(* event callbacks, the outbound fetch() calls and the in-app banner.      *)
(***************************************************************************)
EXTENDS Naturals, Sequences, FiniteSets, TLC

\* ---------------------------------------------------------------- bounds
\* Number of initialize() invocations (the constructor's one included).
MaxInits == 2
\* Number of plugin events the host delivers in one run of the page.
MaxEvents == 2

\* ---------------------------------------------------------- JS values
\* The JS values null and undefined, and the template-literal text of both.
Null == "<null>"
Undef == "<undefined>"

\* Device tokens the host may hand out.
Tokens == {"T1", "T2"}

\* receive states of the plugin's PermissionStatus.
PermStates == {"granted", "denied", "prompt"}

\* The four plugin events, in the order initialize() attaches them.
ListenerOrder ==
    << "registration", "registrationError",
       "pushNotificationReceived", "pushNotificationActionPerformed" >>

EventNames == { ListenerOrder[i] : i \in 1..Len(ListenerOrder) }

\* `${x}` in a template literal.
TemplateText(x) ==
    IF x = Undef THEN "undefined" ELSE IF x = Null THEN "null" ELSE x

\* JS truthiness of the values the model uses (strings, null, undefined).
Truthy(x) == x \notin {Null, Undef, ""}

VARIABLES
    native,         \* Capacitor.isNativePlatform()
    isInitialized,  \* this.isInitialized
    deviceToken,    \* this.deviceToken
    runs,           \* the invocations of initialize(), in call order
    listeners,      \* callbacks attached per plugin event
    net,            \* per endpoint, the fetch() calls not yet settled
    href,           \* window.location.href
    banners,        \* the banner elements created, in creation order
    styles,         \* the #leqoehunt-notification-styles element exists
    lastEvent,      \* the plugin event the last step delivered, its effects
    lastToken,      \* the token of the last 'registration' event delivered
    events          \* number of plugin events delivered

vars == << native, isInitialized, deviceToken, runs, listeners, net, href,
           banners, styles, lastEvent, lastToken, events >>

\* ------------------------------------------------------- initialize()
\* The plugin call an invocation is suspended on, or "done".
AddListenerCall(i) == "addListener:" \o ListenerOrder[i]

AwaitedCalls ==
    {"checkPermissions", "requestPermissions", "register"}
        \cup { AddListenerCall(i) : i \in 1..Len(ListenerOrder) }

\* Mutant of StartRun: the platform check of line 18 is missing.
StartRun_NoPlatformCheck(isNative) ==
    [pc |-> "checkPermissions", exit |-> "running", result |-> "pending",
     check |-> Undef, permStatus |-> Undef,
     trace |-> << "checkPermissions" >>, attached |-> << >>,
     setReady |-> FALSE]

\* initialize() up to its first suspension: the platform check, then the call
\* of checkPermissions().
StartRun(isNative) ==
    IF ~isNative
    THEN [pc |-> "done", exit |-> "web", result |-> "fulfilled",
          check |-> Undef, permStatus |-> Undef, trace |-> << >>,
          attached |-> << >>, setReady |-> FALSE]
    ELSE [pc |-> "checkPermissions", exit |-> "running", result |-> "pending",
          check |-> Undef, permStatus |-> Undef,
          trace |-> << "checkPermissions" >>, attached |-> << >>,
          setReady |-> FALSE]

\* The call of plugin method c by invocation r, which then suspends on it.
CallPlugin(r, c) ==
    [r EXCEPT !.pc = c, !.trace = Append(@, c)]

\* return of initialize() on the path named by how.
Return(r, how) ==
    [r EXCEPT !.pc = "done", !.exit = how, !.result = "fulfilled"]

\* Mutant of AfterPermission: the gate of line 31 is missing.
AfterPermission_NoGate(r) == CallPlugin(r, "register")

\* Lines 31-37: the permission gate, then the call of register().
AfterPermission(r) ==
    IF r.permStatus # "granted"
    THEN Return(r, "denied")
    ELSE CallPlugin(r, "register")

\* Mutant of CheckPermissionsResolved: line 27 is missing, the permission
\* is requested whatever checkPermissions() reported.
CheckPermissionsResolved_AlwaysRequest(r, s) ==
    CallPlugin([r EXCEPT !.permStatus = s, !.check = s], "requestPermissions")

\* Lines 25-29: checkPermissions() resolved with receive = s (check keeps
\* what it reported, permStatus is the variable line 28 may overwrite).
CheckPermissionsResolved(r, s) ==
    LET r1 == [r EXCEPT !.permStatus = s, !.check = s]
    IN  IF s = "prompt" THEN CallPlugin(r1, "requestPermissions")
        ELSE AfterPermission(r1)

\* Line 28: requestPermissions() resolved with receive = s.
RequestPermissionsResolved(r, s) ==
    AfterPermission([r EXCEPT !.permStatus = s])

\* Mutant of CatchInitError: the catch clause rethrows.
CatchInitError_Rethrow(r) ==
    [r EXCEPT !.pc = "done", !.exit = "caught", !.result = "rejected"]

\* Lines 66-68: the catch clause of initialize().
CatchInitError(r) == Return(r, "caught")

\* ------------------------------------------------------ browser storage
\* What localStorage and sessionStorage hold under 'leqoehunt_user' when a
\* token is forwarded (Null is getItem's result for a missing key): absent,
\* empty, not JSON, JSON null, a number, an object without and with userId. The
\* component never writes the stores, the rest of the page may at any time.
UserStores ==
    { << Null, Null >>, << "", "{\"userId\":\"u2\"}" >>,
      << "{bad json", Null >>, << "null", Null >>, << "42", Null >>,
      << "{}", "null" >>,
      << "{\"userId\":\"u1\"}", "{\"userId\":\"u2\"}" >> }

\* JSON.parse on the texts above: the kind of value it yields (or that it
\* throws a SyntaxError) and the value's userId property.
JSONParse(text) ==
    CASE text = "null" -> [kind |-> "null", userId |-> Undef]
      [] text = "42" -> [kind |-> "number", userId |-> Undef]
      [] text = "{}" -> [kind |-> "object", userId |-> Undef]
      [] text = "{\"userId\":\"u1\"}" -> [kind |-> "object", userId |-> "u1"]
      [] text = "{\"userId\":\"u2\"}" -> [kind |-> "object", userId |-> "u2"]
      [] OTHER -> [kind |-> "SyntaxError", userId |-> Undef]

\* Lines 269-283.
getUserInfo(local, session) ==
    LET userInfo == IF Truthy(local) THEN local ELSE session
        parsed == JSONParse(userInfo)
    IN  IF Truthy(userInfo) /\ parsed.kind # "SyntaxError"
        THEN parsed
        ELSE [kind |-> "object", userId |-> Null]

\* ------------------------------------------------------------- fetch()
TokenEndpoint == "https://leqoehunt.my/api/push-token"
AnalyticsEndpoint == "https://leqoehunt.my/api/notification-analytics"
Endpoints == {TokenEndpoint, AnalyticsEndpoint}

\* One fetch() call: the endpoint and the fields of its JSON body (a field
\* the body lacks is Undef).
Request(url, action, token, user, nid, type) ==
    [url |-> url, action |-> action, device_token |-> token,
     user_id |-> user, notification_id |-> nid, type |-> type]

\* The effect of a callback is computed on a record of the fields a callback
\* can touch, plus what it did: the requests it issued and the URLs it
\* navigated to.
Fetch(st, req) ==
    [st EXCEPT !.net[req.url] = @ + 1, !.posts = Append(@, req)]

\* Lines 74-106, up to the suspension on fetch(). Reading userId of null
\* throws a TypeError, which the catch clause of line 103 logs.
sendTokenToServer(st, token) ==
    LET userInfo == getUserInfo(st.localUser, st.sessionUser)
    IN  IF userInfo.kind = "null"
        THEN st
        ELSE Fetch(st, Request(TokenEndpoint, Undef, token,
                               IF Truthy(userInfo.userId)
                               THEN userInfo.userId ELSE Null,
                               Undef, Undef))

\* Mutant of registrationListener: a token already stored is kept.
registrationListener_KeepFirst(st, token) ==
    sendTokenToServer(
        [st EXCEPT !.deviceToken = IF @ = Null THEN token ELSE @], token)

\* Mutant of registrationListener: the callback does nothing while the
\* ready flag is false.
registrationListener_OnlyWhenReady(st, token) ==
    IF st.isInitialized
    THEN sendTokenToServer([st EXCEPT !.deviceToken = token], token)
    ELSE st

\* Lines 40-44: the callback of 'registration'.
registrationListener(st, token) ==
    sendTokenToServer([st EXCEPT !.deviceToken = token], token)

\* Lines 47-49: the callback of 'registrationError' only logs.
registrationErrorListener(st, error) == st

\* ------------------------------------------------------- notifications
PayloadTypes ==
    { "kedai_verification", "photohunt_challenge", "business_update",
      "promotional", "something_else", Undef }

\* The data map of a payload (the plugin's PushNotificationSchema always
\* carries one); a key the map lacks reads as Undef.
NoData ==
    [type |-> Undef, kedai_id |-> Undef, challenge_id |-> Undef,
     promo_id |-> Undef, notification_id |-> Undef]

DataMaps ==
    [type : PayloadTypes, kedai_id : {"42"}, challenge_id : {"7"},
     promo_id : {"9"}, notification_id : {"n1"}] \cup {NoData}

Payloads == [title : {"Hi"}, body : {"There"}, data : DataMaps]

NoPayload == [title |-> Undef, body |-> Undef, data |-> NoData]

\* Mutant of trackNotificationEvent: the body carries no stored token.
trackNotificationEvent_NoToken(st, action, notification) ==
    Fetch(st, Request(AnalyticsEndpoint, action, Null, Undef,
                      notification.data.notification_id,
                      notification.data.type))

\* Lines 288-309.
trackNotificationEvent(st, action, notification) ==
    Fetch(st, Request(AnalyticsEndpoint, action, st.deviceToken, Undef,
                      notification.data.notification_id,
                      notification.data.type))

\* Lines 162-241: the banner element, the style element, the 5 s timer.
showInAppNotification(st, notification) ==
    [st EXCEPT
        !.banners = Append(@, [title |-> TemplateText(notification.title),
                               body |-> TemplateText(notification.body),
                               inDom |-> TRUE, timer |-> "armed"]),
        !.styles = TRUE]

\* Lines 111-121.
handleNotificationReceived(st, notification) ==
    trackNotificationEvent(showInAppNotification(st, notification),
                           "received", notification)

\* Lines 246-264: the navigation helpers.
Navigate(st, url) ==
    [st EXCEPT !.href = url, !.navs = Append(@, url)]

navigateToKedai(st, kedaiId) ==
    Navigate(st, "https://leqoehunt.my/kedai/" \o TemplateText(kedaiId))

navigateToPhotoHunt(st, challengeId) ==
    Navigate(st, "https://leqoehunt.my/photohunt/" \o TemplateText(challengeId))

navigateToBusinessDashboard(st) ==
    Navigate(st, "https://leqoehunt.my/dashboard")

navigateToPromotion(st, promoId) ==
    Navigate(st, "https://leqoehunt.my/promo/" \o TemplateText(promoId))

navigateToHome(st) == Navigate(st, "https://leqoehunt.my/")

\* Mutant of NavigateByType: the break of line 146 is missing, so that
\* 'promotional' falls through to the default case.
NavigateByType_Fallthrough(st, data) ==
    IF Truthy(data.type)
    THEN CASE data.type = "kedai_verification" ->
                  navigateToKedai(st, data.kedai_id)
           [] data.type = "photohunt_challenge" ->
                  navigateToPhotoHunt(st, data.challenge_id)
           [] data.type = "business_update" ->
                  navigateToBusinessDashboard(st)
           [] data.type = "promotional" ->
                  navigateToHome(navigateToPromotion(st, data.promo_id))
           [] OTHER -> navigateToHome(st)
    ELSE navigateToHome(st)

\* Lines 130-153: the dispatch on data.type.
NavigateByType(st, data) ==
    IF Truthy(data.type)
    THEN CASE data.type = "kedai_verification" ->
                  navigateToKedai(st, data.kedai_id)
           [] data.type = "photohunt_challenge" ->
                  navigateToPhotoHunt(st, data.challenge_id)
           [] data.type = "business_update" ->
                  navigateToBusinessDashboard(st)
           [] data.type = "promotional" ->
                  navigateToPromotion(st, data.promo_id)
           [] OTHER -> navigateToHome(st)
    ELSE navigateToHome(st)

\* Lines 126-157; notification is the argument's .notification.
handleNotificationTapped(st, notification) ==
    trackNotificationEvent(NavigateByType(st, notification.data),
                           "opened", notification)

\* The callback initialize() attaches to a plugin event.
Callback(name, st, arg) ==
    CASE name = "registration" -> registrationListener(st, arg)
      [] name = "registrationError" -> registrationErrorListener(st, arg)
      [] name = "pushNotificationReceived" ->
             handleNotificationReceived(st, arg)
      [] name = "pushNotificationActionPerformed" ->
             handleNotificationTapped(st, arg)

\* The host runs each of the k callbacks attached to the event, in turn.
RECURSIVE Dispatch(_, _, _, _)
Dispatch(name, k, st, arg) ==
    IF k = 0 THEN st
    ELSE Dispatch(name, k - 1, Callback(name, st, arg), arg)

\* ------------------------------------------------------------ the state
NoEvent ==
    [name |-> "none", token |-> Null, payload |-> NoPayload,
     stores |-> << Null, Null >>, handlers |-> 0, tokenBefore |-> Null,
     posts |-> << >>, navs |-> << >>]

\* Lines 10-14 and 327: the module-level construction, whose constructor
\* calls initialize().
Init ==
    /\ native \in BOOLEAN
    /\ isInitialized = FALSE
    /\ deviceToken = Null
    /\ runs = << StartRun(native) >>
    /\ listeners = [e \in EventNames |-> 0]
    /\ net = [u \in Endpoints |-> 0]
    /\ href = "app"
    /\ banners = << >>
    /\ styles = FALSE
    /\ lastEvent = NoEvent
    /\ lastToken = Null
    /\ events = 0

\* What a step of initialize() leaves alone.
InitFrame ==
    /\ lastEvent' = NoEvent
    /\ UNCHANGED << native, deviceToken, net, href, banners, styles,
                    lastToken, events >>

\* Line 330 exports the instance: a later call of its initialize().
Initialize ==
    /\ Len(runs) < MaxInits
    /\ runs' = Append(runs, StartRun(native))
    /\ UNCHANGED << isInitialized, listeners >>
    /\ InitFrame

\* checkPermissions() resolves.
CheckPermissionsResolves ==
    \E i \in 1..Len(runs), s \in PermStates :
        /\ runs[i].pc = "checkPermissions"
        /\ runs' = [runs EXCEPT ![i] = CheckPermissionsResolved(@, s)]
        /\ UNCHANGED << isInitialized, listeners >>
        /\ InitFrame

\* requestPermissions() resolves: the user answered the prompt.
RequestPermissionsResolves ==
    \E i \in 1..Len(runs), s \in PermStates :
        /\ runs[i].pc = "requestPermissions"
        /\ runs' = [runs EXCEPT ![i] = RequestPermissionsResolved(@, s)]
        /\ UNCHANGED << isInitialized, listeners >>
        /\ InitFrame

\* Lines 37-40: register() resolves, addListener('registration') is called.
RegisterResolved(r) == CallPlugin(r, AddListenerCall(1))

RegisterResolves ==
    \E i \in 1..Len(runs) :
        /\ runs[i].pc = "register"
        /\ runs' = [runs EXCEPT ![i] = RegisterResolved(@)]
        /\ UNCHANGED << isInitialized, listeners >>
        /\ InitFrame

\* Mutant of ListenerAttached: line 63 is missing.
ListenerAttached_NoFlag(r, k) ==
    LET r1 == [r EXCEPT !.attached = Append(@, ListenerOrder[k])]
    IN  IF k < Len(ListenerOrder)
        THEN CallPlugin(r1, AddListenerCall(k + 1))
        ELSE Return(r1, "ready")

\* Mutant of ListenerAttached: line 63 sits right after the first
\* addListener().
ListenerAttached_EarlyFlag(r, k) ==
    LET r1 == [r EXCEPT !.attached = Append(@, ListenerOrder[k]),
                        !.setReady = TRUE]
    IN  IF k < Len(ListenerOrder)
        THEN CallPlugin(r1, AddListenerCall(k + 1))
        ELSE Return(r1, "ready")

\* Lines 40-63: the k-th addListener() resolves with its callback attached;
\* the next one is called or, after the fourth, the ready flag is set.
ListenerAttached(r, k) ==
    LET r1 == [r EXCEPT !.attached = Append(@, ListenerOrder[k])]
    IN  IF k < Len(ListenerOrder)
        THEN CallPlugin(r1, AddListenerCall(k + 1))
        ELSE Return([r1 EXCEPT !.setReady = TRUE], "ready")

AddListenerResolves ==
    \E i \in 1..Len(runs), k \in 1..Len(ListenerOrder) :
        /\ runs[i].pc = AddListenerCall(k)
        /\ runs' = [runs EXCEPT ![i] = ListenerAttached(@, k)]
        /\ listeners' = [listeners EXCEPT ![ListenerOrder[k]] = @ + 1]
        /\ isInitialized' = (isInitialized \/ runs'[i].setReady)
        /\ InitFrame

\* The awaited plugin call throws or rejects: control enters the catch.
PluginCallThrows ==
    \E i \in 1..Len(runs) :
        /\ runs[i].pc \in AwaitedCalls
        /\ runs' = [runs EXCEPT ![i] = CatchInitError(@)]
        /\ UNCHANGED << isInitialized, listeners >>
        /\ InitFrame

\* The host delivers plugin event name with argument arg: every callback
\* attached to it runs to its end or to its first suspension.
Deliver(name, arg, token, payload, stores) ==
    /\ events < MaxEvents
    /\ listeners[name] > 0
    /\ LET st0 == [deviceToken |-> deviceToken, isInitialized |-> isInitialized,
                   net |-> net, href |-> href,
                   banners |-> banners, styles |-> styles,
                   localUser |-> stores[1], sessionUser |-> stores[2],
                   posts |-> << >>, navs |-> << >>]
           st1 == Dispatch(name, listeners[name], st0, arg)
       IN  /\ deviceToken' = st1.deviceToken
           /\ net' = st1.net
           /\ href' = st1.href
           /\ banners' = st1.banners
           /\ styles' = st1.styles
           /\ lastEvent' = [name |-> name, token |-> token,
                            payload |-> payload, stores |-> stores,
                            handlers |-> listeners[name],
                            tokenBefore |-> deviceToken,
                            posts |-> st1.posts, navs |-> st1.navs]
    /\ lastToken' = IF name = "registration" THEN token ELSE lastToken
    /\ events' = events + 1
    /\ UNCHANGED << native, isInitialized, runs, listeners >>

RegistrationEvent ==
    \E t \in Tokens, u \in UserStores :
        Deliver("registration", t, t, NoPayload, u)

RegistrationErrorEvent ==
    Deliver("registrationError", "error", Null, NoPayload, << Null, Null >>)

NotificationReceivedEvent ==
    \E n \in Payloads :
        Deliver("pushNotificationReceived", n, Null, n, << Null, Null >>)

NotificationTappedEvent ==
    \E n \in Payloads :
        Deliver("pushNotificationActionPerformed", n, Null, n,
                << Null, Null >>)

\* A fetch() settles: a 2xx response, another response, a transport failure.
FetchOutcomes == {"ok", "non2xx", "failed"}

\* Mutant of Settled: a fetch() that failed in transport is issued again.
Settled_RetryOnFailure(pending, u, o) ==
    IF o = "failed" THEN pending ELSE [pending EXCEPT ![u] = @ - 1]

\* Lines 97-105 and 303-305 log the outcome o of a pending fetch() to
\* endpoint u; nothing is issued again.
Settled(pending, u, o) == [pending EXCEPT ![u] = @ - 1]

\* The fields of the component and its pending fetch() calls.
Component ==
    [deviceToken |-> deviceToken, isInitialized |-> isInitialized,
     listeners |-> listeners, net |-> net]

\* Lines 97-105 and 303-305: the continuation that runs when a fetch() to
\* endpoint u settles with outcome o.
AfterFetch(st, u, o) == [st EXCEPT !.net = Settled(@, u, o)]

FetchSettles ==
    \E u \in Endpoints, o \in FetchOutcomes :
        /\ net[u] > 0
        /\ LET st1 == AfterFetch(Component, u, o)
           IN  /\ net' = st1.net
               /\ deviceToken' = st1.deviceToken
               /\ isInitialized' = st1.isInitialized
               /\ listeners' = st1.listeners
        /\ lastEvent' = NoEvent
        /\ UNCHANGED << native, runs, href, banners, styles, lastToken,
                        events >>

\* Line 173: a click on the close mark of a banner that is shown.
BannerDismissed ==
    \E i \in 1..Len(banners) :
        /\ banners[i].inDom
        /\ banners' = [banners EXCEPT ![i].inDom = FALSE]
        /\ lastEvent' = NoEvent
        /\ UNCHANGED << native, isInitialized, deviceToken, runs, listeners,
                        net, href, styles, lastToken, events >>

\* Lines 236-240: the banner's timer fires.
BannerTimerFires ==
    \E i \in 1..Len(banners) :
        /\ banners[i].timer = "armed"
        /\ banners' = [banners EXCEPT ![i].timer = "fired",
                                      ![i].inDom = FALSE]
        /\ lastEvent' = NoEvent
        /\ UNCHANGED << native, isInitialized, deviceToken, runs, listeners,
                        net, href, styles, lastToken, events >>

Next ==
    \/ Initialize
    \/ CheckPermissionsResolves
    \/ RequestPermissionsResolves
    \/ RegisterResolves
    \/ AddListenerResolves
    \/ PluginCallThrows
    \/ RegistrationEvent
    \/ RegistrationErrorEvent
    \/ NotificationReceivedEvent
    \/ NotificationTappedEvent
    \/ FetchSettles
    \/ BannerDismissed
    \/ BannerTimerFires

Spec == Init /\ [][Next]_vars

\* Lines 314-316 and 321-323: the two public getters.
getDeviceToken == deviceToken
isReady == isInitialized

\* ------------------------------------------------------------- claims
\* Invocation r has called plugin method c; how many times it has.
Called(r, c) == \E k \in 1..Len(r.trace) : r.trace[k] = c
TimesCalled(r, c) == Cardinality({ k \in 1..Len(r.trace) : r.trace[k] = c })
RunIds == 1..Len(runs)

\* C1: on a non-native host no invocation of initialize() calls the plugin at
\* all (no permission query or request, no register(), no addListener()), no
\* callback is attached and isReady() is false, in every reachable state.
C1_NonNativeInert ==
    ~native =>
        /\ \A i \in RunIds :
              /\ runs[i].trace = << >>
              /\ runs[i].attached = << >>
              /\ runs[i].pc = "done"
              /\ runs[i].exit = "web"
        /\ \A e \in EventNames : listeners[e] = 0
        /\ ~isReady
        /\ events = 0

\* C1 witness: a non-native host on which initialize() was called again
\* after the constructor's call.
C1_Witness == ~native /\ Len(runs) = 2 /\ runs[2].exit = "web"

\* C2: an invocation whose permission state is 'denied', reported by
\* checkPermissions() or by requestPermissions() after 'prompt', has returned
\* without calling register(), without attaching a listener and without
\* setting the ready flag; the flag is only ever true when some invocation
\* saw 'granted'.
C2_DeniedHalts ==
    /\ \A i \in RunIds :
          runs[i].permStatus = "denied" =>
              /\ runs[i].pc = "done"
              /\ runs[i].exit = "denied"
              /\ ~Called(runs[i], "register")
              /\ \A k \in 1..Len(ListenerOrder) :
                    ~Called(runs[i], AddListenerCall(k))
              /\ runs[i].attached = << >>
              /\ ~runs[i].setReady
    /\ isReady => \E i \in RunIds : runs[i].permStatus = "granted"

\* C2 witness: one invocation denied directly and one denied after the
\* prompt, the flag still false.
C2_Witness ==
    /\ Len(runs) = 2
    /\ runs[1].permStatus = "denied" /\ ~Called(runs[1], "requestPermissions")
    /\ runs[2].permStatus = "denied" /\ Called(runs[2], "requestPermissions")
    /\ ~isReady

\* Invocation r got 'prompt' from checkPermissions() and 'granted' from
\* requestPermissions().
PromptThenGranted(r) ==
    Called(r, "requestPermissions") /\ r.permStatus = "granted"

\* C3 as stated: after 'prompt' then 'granted', an invocation that has ended
\* called register() and left the ready flag true.
C3_AsStated ==
    \A i \in RunIds :
        (PromptThenGranted(runs[i]) /\ runs[i].pc = "done") =>
            (Called(runs[i], "register") /\ isReady)

\* C3 amended: after 'prompt' then 'granted' the invocation calls register();
\* when it ends it has either set the ready flag, with all four listeners
\* attached, or ended in the catch clause because register() or an
\* addListener() call raised.
C3_PromptGrantedRegisters ==
    \A i \in RunIds :
        PromptThenGranted(runs[i]) =>
            /\ Called(runs[i], "register")
            /\ runs[i].pc = "done" =>
                  \/ /\ runs[i].exit = "ready"
                     /\ runs[i].attached = ListenerOrder
                     /\ isReady
                  \/ runs[i].exit = "caught"

\* C3 witness: such an invocation has ended with the flag true.
C3_Witness ==
    \E i \in RunIds :
        /\ PromptThenGranted(runs[i])
        /\ runs[i].exit = "ready"
        /\ isReady

\* C4 as stated: a registration event with token T causes exactly one POST,
\* to the push-token endpoint with device_token = T, and getDeviceToken()
\* then returns T.
C4_AsStated ==
    lastEvent.name = "registration" =>
        /\ Len(lastEvent.posts) = 1
        /\ lastEvent.posts[1].url = TokenEndpoint
        /\ lastEvent.posts[1].device_token = lastEvent.token
        /\ getDeviceToken = lastEvent.token

\* The navigation target the contract assigns to a data map.
HomeUrl == "https://leqoehunt.my/"
TargetOf(data) ==
    CASE data.type = "kedai_verification" ->
             "https://leqoehunt.my/kedai/" \o TemplateText(data.kedai_id)
      [] data.type = "photohunt_challenge" ->
             "https://leqoehunt.my/photohunt/" \o TemplateText(data.challenge_id)
      [] data.type = "business_update" -> "https://leqoehunt.my/dashboard"
      [] data.type = "promotional" ->
             "https://leqoehunt.my/promo/" \o TemplateText(data.promo_id)
      [] OTHER -> HomeUrl

\* C5: every tap navigates, and only to the target its data.type selects;
\* an unrecognized or absent type selects the home URL.
C5_TapNavigates ==
    lastEvent.name = "pushNotificationActionPerformed" =>
        /\ Len(lastEvent.navs) = lastEvent.handlers
        /\ \A k \in 1..Len(lastEvent.navs) :
              lastEvent.navs[k] = TargetOf(lastEvent.payload.data)
        /\ href = TargetOf(lastEvent.payload.data)

\* C5 witness: the tap of a promotion, after an earlier event, has led to
\* the promotion's page.
C5_Witness ==
    /\ lastEvent.name = "pushNotificationActionPerformed"
    /\ lastEvent.payload.data.type = "promotional"
    /\ href = "https://leqoehunt.my/promo/9"
    /\ events = 2

\* C6 as stated: a tap causes exactly one analytics POST with action
\* 'opened', a received notification exactly one with action 'received'.
ActionOf(name) ==
    IF name = "pushNotificationActionPerformed" THEN "opened" ELSE "received"

C6_AsStated ==
    lastEvent.name \in
        {"pushNotificationReceived", "pushNotificationActionPerformed"} =>
            /\ Len(lastEvent.posts) = 1
            /\ lastEvent.posts[1].url = AnalyticsEndpoint
            /\ lastEvent.posts[1].action = ActionOf(lastEvent.name)

\* C7: an invocation in which a plugin call raised has ended in the catch
\* clause: its promise is fulfilled (nothing reaches the caller), it called
\* no plugin method twice, and it did not set the ready flag, which is true
\* only when some invocation ran to the end.
C7_InitErrorSwallowed ==
    /\ \A i \in RunIds :
          /\ runs[i].exit = "caught" =>
                /\ runs[i].pc = "done"
                /\ runs[i].result = "fulfilled"
                /\ ~runs[i].setReady
          /\ runs[i].result # "rejected"
          /\ \A c \in AwaitedCalls : TimesCalled(runs[i], c) <= 1
    /\ isReady => \E i \in RunIds : runs[i].exit = "ready"

\* C7 witness: the constructor's invocation failed in the last addListener()
\* and a later one in checkPermissions(); the flag is false.
C7_Witness ==
    /\ Len(runs) = 2
    /\ runs[1].exit = "caught"
    /\ runs[1].trace[Len(runs[1].trace)] = AddListenerCall(4)
    /\ runs[2].exit = "caught"
    /\ runs[2].trace = << "checkPermissions" >>
    /\ ~isReady

\* C8: the ready flag is true exactly when some invocation executed line 63,
\* and such an invocation saw 'granted', had register() resolve and attached
\* the four listeners; the flag is therefore never reset.
C8_ReadyFlag ==
    /\ isReady <=> \E i \in RunIds : runs[i].setReady
    /\ \A i \in RunIds :
          runs[i].setReady =>
              /\ runs[i].permStatus = "granted"
              /\ Called(runs[i], "register")
              /\ runs[i].attached = ListenerOrder
    /\ isReady => \A e \in EventNames : listeners[e] >= 1

\* C8 witness: the flag is true while a later invocation has failed.
C8_Witness ==
    /\ isReady
    /\ \E i \in RunIds : runs[i].setReady
    /\ \E j \in RunIds : runs[j].exit \in {"caught", "denied"}

\* C9: getDeviceToken() is the token of the last registration event
\* delivered, null before the first; nothing else writes the field.
C9_TokenIsLatest == getDeviceToken = lastToken

\* C9 witness: a second registration event replaced a different token.
C9_Witness ==
    /\ lastEvent.name = "registration"
    /\ lastEvent.tokenBefore \notin {Null, lastEvent.token}
    /\ getDeviceToken = lastEvent.token

\* C10 as stated: each plugin event has at most one callback attached, so
\* an event runs its handler at most once.
C10_AsStated ==
    /\ \A e \in EventNames : listeners[e] <= 1
    /\ lastEvent.handlers <= 1

\* The text getUserInfo reads, and whether it holds no user: it is absent,
\* is not JSON, or is JSON for something that is not an object.
StoredText(stores) == IF Truthy(stores[1]) THEN stores[1] ELSE stores[2]
NoStoredUser(stores) ==
    \/ ~Truthy(StoredText(stores))
    \/ JSONParse(StoredText(stores)).kind \in {"SyntaxError", "null", "number"}

\* C11 as stated: whenever the stored user record is absent, unparsable or
\* not an object, a registration event still sends the token POST, with
\* user_id = null.
C11_AsStated ==
    (lastEvent.name = "registration" /\ NoStoredUser(lastEvent.stores)) =>
        /\ Len(lastEvent.posts) >= 1
        /\ \A k \in 1..Len(lastEvent.posts) :
              /\ lastEvent.posts[k].url = TokenEndpoint
              /\ lastEvent.posts[k].device_token = lastEvent.token
              /\ lastEvent.posts[k].user_id = Null

\* The fetch() calls pending in all.
Pending(n) == n[TokenEndpoint] + n[AnalyticsEndpoint]

\* C12: whenever a fetch() is pending, its settling leaves the stored token,
\* the ready flag and the attached listeners as they are and issues nothing
\* again (one call fewer is pending), whatever the outcome; so the state
\* after it is the same for a 2xx response, another response and a transport
\* failure, and a fetch() that never settles changes nothing at all.
C12_FireAndForget ==
    \A u \in Endpoints :
        net[u] > 0 =>
            \A o \in FetchOutcomes :
                LET st1 == AfterFetch(Component, u, o)
                IN  /\ st1.deviceToken = deviceToken
                    /\ st1.isInitialized = isInitialized
                    /\ st1.listeners = listeners
                    /\ st1.net[u] = net[u] - 1
                    /\ Pending(st1.net) = Pending(net) - 1
                    /\ \A o2 \in FetchOutcomes :
                          AfterFetch(Component, u, o2) = st1

\* C12 witness: two notification events were handled, at least one of their
\* analytics calls has settled and one is still pending.
C12_Witness ==
    /\ events = 2
    /\ Len(banners) >= 1
    /\ href # "app"
    /\ net[AnalyticsEndpoint] = 1

\* A step delivers a 'pushNotificationReceived' event.
ReceivedStep ==
    events' = events + 1 /\ lastEvent'.name = "pushNotificationReceived"

\* The banners a step takes out of the document.
RemovedByStep ==
    { i \in 1..Len(banners) : banners[i].inDom /\ ~banners'[i].inDom }

\* C13 as stated, its safety part: a received notification adds exactly one
\* banner, shown and with its timer armed; no step takes away a banner record
\* or shows a removed banner again; a step removes at most one banner, so a
\* timer removes only its own banner and the later of dismiss and timer
\* removes nothing.
C13_AsStated ==
    [][ /\ Len(banners') >= Len(banners)
        /\ ReceivedStep =>
              /\ Len(banners') = Len(banners) + 1
              /\ banners'[Len(banners')].inDom
              /\ banners'[Len(banners')].timer = "armed"
        /\ ~ReceivedStep => Len(banners') = Len(banners)
        /\ \A i \in 1..Len(banners) : banners'[i].inDom => banners[i].inDom
        /\ Cardinality(RemovedByStep) <= 1 ]_vars

\* The plugin calls of initialize() in program order, with and without the
\* permission request.
CallOrder ==
    << "checkPermissions", "requestPermissions", "register" >>
        \o [k \in 1..Len(ListenerOrder) |-> AddListenerCall(k)]
CallOrderNoPrompt ==
    << "checkPermissions", "register" >>
        \o [k \in 1..Len(ListenerOrder) |-> AddListenerCall(k)]

IsPrefix(a, b) == Len(a) <= Len(b) /\ \A k \in 1..Len(a) : a[k] = b[k]

\* C14: every invocation calls the plugin in program order; it calls
\* requestPermissions() only when checkPermissions() reported 'prompt' and
\* register() only with permission 'granted'; it attaches the listeners in
\* the order registration, registrationError, pushNotificationReceived,
\* pushNotificationActionPerformed, each after its addListener() call and so
\* after register() resolved; a token is stored, a token POST pending or an
\* event delivered only when some invocation with 'granted' has had
\* register() resolve and attached the registration listener.
C14_InitOrder ==
    /\ \A i \in RunIds :
          /\ \/ IsPrefix(runs[i].trace, CallOrder)
             \/ IsPrefix(runs[i].trace, CallOrderNoPrompt)
          /\ Called(runs[i], "requestPermissions") <=> runs[i].check = "prompt"
          /\ Called(runs[i], "register") => runs[i].permStatus = "granted"
          /\ IsPrefix(runs[i].attached, ListenerOrder)
          /\ Len(runs[i].attached) >= 1 =>
                /\ Called(runs[i], "register")
                /\ Called(runs[i], AddListenerCall(Len(runs[i].attached)))
    /\ (deviceToken # Null \/ net[TokenEndpoint] > 0 \/ events > 0) =>
          \E i \in RunIds :
              /\ runs[i].permStatus = "granted"
              /\ Called(runs[i], AddListenerCall(1))
              /\ Len(runs[i].attached) >= 1

\* C14 witness: an invocation went through the prompt and all seven calls,
\* and a token has been stored since.
C14_Witness ==
    /\ \E i \in RunIds :
          /\ runs[i].trace = CallOrder
          /\ runs[i].check = "prompt"
          /\ runs[i].exit = "ready"
    /\ deviceToken # Null

\* The invocations that have attached a callback to event e.
AttachedBy(e) ==
    { i \in RunIds : \E k \in 1..Len(runs[i].attached) : runs[i].attached[k] = e }

\* C15: no callback is ever detached: each event has as many callbacks as
\* invocations have attached to it, those of invocations that ended in the
\* catch clause included; and a registration event delivered is handled
\* whatever the ready flag is: the callback runs and the token is stored.
C15_ListenersOutliveFailure ==
    /\ \A e \in EventNames : listeners[e] = Cardinality(AttachedBy(e))
    /\ \A i \in RunIds :
          runs[i].exit = "caught" =>
              \A k \in 1..Len(runs[i].attached) :
                  listeners[runs[i].attached[k]] >= 1
    /\ lastEvent.name = "registration" =>
          /\ lastEvent.handlers >= 1
          /\ getDeviceToken = lastEvent.token

\* C15 witness: every invocation ended in the catch clause, one of them
\* after it attached the registration listener; the ready flag is false, and
\* a registration event has stored its token and sent the token POST.
C15_Witness ==
    /\ ~isReady
    /\ \A i \in RunIds : runs[i].exit = "caught"
    /\ \E i \in RunIds :
          /\ Len(runs[i].attached) >= 1
          /\ runs[i].attached[1] = "registration"
    /\ lastEvent.name = "registration"
    /\ getDeviceToken = lastEvent.token
    /\ getDeviceToken # Null
    /\ Len(lastEvent.posts) >= 1
    /\ lastEvent.posts[1].url = TokenEndpoint

\* C16: every analytics POST of a notification event carries the token that
\* was stored when the event was handled, which is the token of the last
\* registration event delivered before it, null when there was none.
C16_AnalyticsToken ==
    lastEvent.name \in
        {"pushNotificationReceived", "pushNotificationActionPerformed"} =>
            /\ lastEvent.tokenBefore = lastToken
            /\ Len(lastEvent.posts) >= 1
            /\ \A k \in 1..Len(lastEvent.posts) :
                  /\ lastEvent.posts[k].url = AnalyticsEndpoint
                  /\ lastEvent.posts[k].device_token = lastToken

\* C16 witness: a notification handled after a registration event carries
\* that event's token.
C16_Witness ==
    /\ lastEvent.name = "pushNotificationReceived"
    /\ lastToken \in Tokens
    /\ lastEvent.posts[1].device_token = lastToken

\* A notification handled before any registration event carries null.
C16_WitnessNull ==
    /\ lastEvent.name = "pushNotificationActionPerformed"
    /\ lastToken = Null
    /\ lastEvent.posts[1].device_token = Null

====
